---- MODULE Spec2Model ----
(***************************************************************************)
(* Model of app.py, the Blinkit sales and inventory dashboard: the login   *)
(* gate, the two spreadsheet loaders with header detection, and the        *)
(* analysis the script runs on every rerun (daily totals, growth reports,  *)
(* period comparison, growth leaders, last-day performers, weekly          *)
(* patterns, projected inventory).                                         *)
(*                                                                         *)
(* Text is a sequence of characters; a run of letters is written as one    *)
(* element and every blank as the element " ", so that str.strip() is an   *)
(* operation on the text and not the identity.  Amounts and quantities are *)
(* whole numbers; averages and growth figures are exact fractions, with    *)
(* the float values NaN and +-inf represented by a zero denominator.       *)
(***************************************************************************)
EXTENDS Integers, Sequences, FiniteSets, TLC

VARIABLES authenticated, password, current_file, prev_file, inv_file, ties, out

vars == <<authenticated, password, current_file, prev_file, inv_file, ties, out>>

(***************************************************************************)
(* Bounds of the model                                                     *)
(***************************************************************************)
MaxRows == 3
TicksPerDay == 2
MaxFill == 11
NumFixed == 11

(***************************************************************************)
(* Generic helpers                                                         *)
(***************************************************************************)
None == [t |-> "none"]

Abs(x) == IF x < 0 THEN -x ELSE x

RECURSIVE Gcd(_, _)
Gcd(a, b) == IF b = 0 THEN a ELSE Gcd(b, a % b)

RECURSIVE SumSeq(_)
SumSeq(s) == IF s = <<>> THEN 0 ELSE Head(s) + SumSeq(Tail(s))

RECURSIVE SelectRows(_, _)
SelectRows(s, keep) ==
    IF s = <<>> THEN <<>>
    ELSE IF keep[1] THEN <<Head(s)>> \o SelectRows(Tail(s), Tail(keep))
         ELSE SelectRows(Tail(s), Tail(keep))

Range(s) == {s[i] : i \in 1..Len(s)}

(***************************************************************************)
(* Floats: exact fractions n/d with d > 0; d = 0 holds NaN (n = 0) and     *)
(* +inf / -inf (n = 1 / -1), as IEEE division by zero produces them.       *)
(***************************************************************************)
NaN == [n |-> 0, d |-> 0]
Inf == [n |-> 1, d |-> 0]
NegInf == [n |-> -1, d |-> 0]

Frac(n, d) ==
    IF d = 0 THEN (IF n = 0 THEN NaN ELSE IF n > 0 THEN Inf ELSE NegInf)
    ELSE LET g == Gcd(Abs(n), Abs(d))
             s == IF d < 0 THEN -1 ELSE 1
         IN [n |-> (s * n) \div g, d |-> (s * d) \div g]

F(i) == [n |-> i, d |-> 1]

IsNaN(x) == x.d = 0 /\ x.n = 0
IsFinite(x) == x.d # 0

FSub(a, b) ==
    IF IsNaN(a) \/ IsNaN(b) THEN NaN
    ELSE IF a.d = 0 /\ b.d = 0 THEN (IF a.n = b.n THEN NaN ELSE a)
    ELSE IF a.d = 0 THEN a
    ELSE IF b.d = 0 THEN [n |-> -b.n, d |-> 0]
    ELSE Frac(a.n * b.d - b.n * a.d, a.d * b.d)

FDiv(a, b) ==
    IF IsNaN(a) \/ IsNaN(b) THEN NaN
    ELSE IF a.d = 0 /\ b.d = 0 THEN NaN
    ELSE IF a.d = 0 THEN (IF b.n < 0 THEN [n |-> -a.n, d |-> 0] ELSE a)
    ELSE IF b.d = 0 THEN F(0)
    ELSE Frac(a.n * b.d, a.d * b.n)

\* a > b on floats; every comparison with NaN is false
FGt(a, b) ==
    IF IsNaN(a) \/ IsNaN(b) THEN FALSE
    ELSE IF a.d = 0 /\ b.d = 0 THEN a.n > b.n
    ELSE IF a.d = 0 THEN a.n > 0
    ELSE IF b.d = 0 THEN b.n < 0
    ELSE a.n * b.d > b.n * a.d

FGe(a, b) == FGt(a, b) \/ (~IsNaN(a) /\ a = b)

\* Series.fillna(0), Series.replace(0, 1), DataFrame.replace([inf, -inf], 0)
fillna0(x) == IF IsNaN(x) THEN F(0) ELSE x
replace_0_1(x) == IF x = F(0) THEN F(1) ELSE x
replace_inf_0(x) == IF x = Inf \/ x = NegInf THEN F(0) ELSE x

(***************************************************************************)
(* Text, cells, sheets and workbooks                                       *)
(***************************************************************************)
RECURSIVE lstrip(_)
lstrip(s) == IF s # <<>> /\ Head(s) = " " THEN lstrip(Tail(s)) ELSE s

RECURSIVE rstrip(_)
rstrip(s) ==
    IF s # <<>> /\ s[Len(s)] = " " THEN rstrip(SubSeq(s, 1, Len(s) - 1)) ELSE s

\* str.strip()
strip(s) == rstrip(lstrip(s))

\* A spreadsheet cell: text, a number, a date-time (n counts ticks, TicksPerDay
\* to the calendar day) or an empty cell (read as NaN / NaT).
Str(s) == [t |-> "str", s |-> s, n |-> 0]
Num(n) == [t |-> "num", s |-> <<>>, n |-> n]
Date(n) == [t |-> "date", s |-> <<>>, n |-> n]
Blank == [t |-> "blank", s |-> <<>>, n |-> 0]

\* The column names the script looks for
OrderDate == <<"Order", " ", "Date">>
Quantity == <<"Quantity">>
TotalGrossBillAmount == <<"Total", " ", "Gross", " ", "Bill", " ", "Amount">>
ProductName == <<"Product", " ", "Name">>
CustomerState == <<"Customer", " ", "State">>
CustomerCity == <<"Customer", " ", "City">>
ItemName == <<"Item", " ", "Name">>
TotalSellable == <<"Total", " ", "sellable">>
IncomingScheduled == <<"Incoming", " ", "scheduled", " ", "inventory">>
Last30Days == <<"Last", " ", "30", " ", "days">>

\* nrows=10 of the header preview
PreviewRows == 10

\* row.astype(str).str.strip().tolist(): the text of each cell, stripped
astype_str(c) ==
    CASE c.t = "str" -> c.s
      [] c.t = "blank" -> <<"nan">>
      [] c.t = "num" -> <<"0123456789">>
      [] OTHER -> <<"0000-00-00">>

row_str(row) == [i \in 1..Len(row) |-> strip(astype_str(row[i]))]

\* pd.read_excel(sheet, header=h): row h (0-based) gives the column labels,
\* the rows below it the data; an empty sheet gives an empty frame.
read_excel(rows, h) ==
    IF h + 1 > Len(rows) THEN [t |-> "df", columns |-> <<>>, rows |-> <<>>]
    ELSE [t |-> "df", columns |-> rows[h + 1],
          rows |-> SubSeq(rows, h + 2, Len(rows))]

\* pd.read_excel(sheet, header=None, nrows=10)
df_preview(rows) ==
    SubSeq(rows, 1, IF Len(rows) < PreviewRows THEN Len(rows) ELSE PreviewRows)

\* The first 0-based index of a preview row whose stripped texts include
\* both names, or -1 (the loop of lines 48-52 and 79-82)
find_header(preview, a, b) ==
    LET hits == {i \in 1..Len(preview) :
                     a \in Range(row_str(preview[i])) /\ b \in Range(row_str(preview[i]))}
    IN IF hits = {} THEN -1
       ELSE (CHOOSE i \in hits : \A j \in hits : i <= j) - 1

\* df.columns = df.columns.str.strip(): a label that is no text becomes NaN
strip_columns(df) ==
    [df EXCEPT !.columns =
        [i \in 1..Len(df.columns) |->
            IF df.columns[i].t = "str" THEN Str(strip(df.columns[i].s)) ELSE Blank]]

has_column(df, name) == Str(name) \in Range(df.columns)

col_index(df, name) ==
    CHOOSE i \in 1..Len(df.columns) :
        /\ df.columns[i] = Str(name)
        /\ \A j \in 1..Len(df.columns) : df.columns[j] = Str(name) => i <= j

\* df[name] is a single column only when one label carries the name; with a
\* repeated label it is a frame, on which to_datetime / to_numeric raise.
is_repeated(df, name) ==
    Cardinality({i \in 1..Len(df.columns) : df.columns[i] = Str(name)}) > 1

\* df[name] = values
set_column(df, name, values) ==
    LET k == col_index(df, name)
    IN [df EXCEPT !.rows =
          [i \in 1..Len(df.rows) |-> [df.rows[i] EXCEPT ![k] = values[i]]]]

\* df[name] = 0 for a column the frame lacks
add_zero_column(df, name) ==
    [df EXCEPT !.columns = Append(df.columns, Str(name)),
               !.rows = [i \in 1..Len(df.rows) |-> Append(df.rows[i], Num(0))]]

\* pd.to_datetime(x, errors='coerce'): a date-time is kept, text that is no
\* date and an empty cell become NaT
to_datetime(c) == IF c.t = "date" THEN c ELSE Blank

\* pd.to_numeric(x, errors='coerce').fillna(0)
to_numeric_fillna0(c) == IF c.t = "num" THEN c ELSE Num(0)

\* df.dropna(subset=[name])
dropna(df, name) ==
    LET k == col_index(df, name)
    IN [df EXCEPT !.rows =
          SelectRows(df.rows, [i \in 1..Len(df.rows) |-> df.rows[i][k].t # "blank"])]

\* the loop of lines 62-66 and 90-94 for one column
coerce_numeric(df, name) ==
    IF has_column(df, name) THEN set_column(df, name,
           [i \in 1..Len(df.rows) |-> to_numeric_fillna0(df.rows[i][col_index(df, name)])])
    ELSE add_zero_column(df, name)

(***************************************************************************)
(* load_smart_sales and load_smart_inventory                               *)
(***************************************************************************)
\* lines 43-56: the frame with its header located, or None
locate_sales(file) ==
    LET rows == file.sheets[1].rows
        df == read_excel(rows, 0)
    IN IF has_column(df, OrderDate) THEN df
       ELSE LET header_row == find_header(df_preview(rows), OrderDate, Quantity)
            IN IF header_row # -1 THEN read_excel(rows, header_row) ELSE None

\* lines 58-67
normalize_sales(df0) ==
    LET df1 == strip_columns(df0)
    IN IF is_repeated(df1, OrderDate) \/ is_repeated(df1, Quantity)
          \/ is_repeated(df1, TotalGrossBillAmount)
       THEN None
       ELSE LET df2 == dropna(set_column(df1, OrderDate,
                               [i \in 1..Len(df1.rows) |->
                                   to_datetime(df1.rows[i][col_index(df1, OrderDate)])]),
                            OrderDate)
            IN coerce_numeric(coerce_numeric(df2, Quantity), TotalGrossBillAmount)

load_smart_sales(file) ==
    IF file = None THEN None
    ELSE LET df == locate_sales(file)
         IN IF df = None THEN None ELSE normalize_sales(df)

\* lines 77-83: <<sheet, header row>> of the first sheet with a matching row
\* among its first ten, or <<0, 0>>
RECURSIVE target_sheet(_, _)
target_sheet(sheets, k) ==
    IF k > Len(sheets) THEN <<0, 0>>
    ELSE LET h == find_header(df_preview(sheets[k].rows), ItemName, TotalSellable)
         IN IF h # -1 THEN <<k, h>> ELSE target_sheet(sheets, k + 1)

load_smart_inventory(file) ==
    IF file = None THEN None
    ELSE LET found == target_sheet(file.sheets, 1)
         IN IF found[1] = 0 THEN None
            ELSE LET df == strip_columns(read_excel(file.sheets[found[1]].rows, found[2]))
                 IN IF is_repeated(df, TotalSellable) \/ is_repeated(df, IncomingScheduled)
                       \/ is_repeated(df, Last30Days)
                    THEN None
                    ELSE coerce_numeric(coerce_numeric(coerce_numeric(df,
                             TotalSellable), IncomingScheduled), Last30Days)

(***************************************************************************)
(* Ordering and sorting                                                    *)
(***************************************************************************)
Alphabet == <<"A", "B", "C", "D", "E", "F", "G", "H", "I", "J", "K", "L", "M",
              "N", "O", "P", "Q", "R", "S", "T", "U", "V", "W", "X", "Y", "Z">>

char_rank(ch) ==
    IF ch \in Range(Alphabet) THEN CHOOSE i \in 1..Len(Alphabet) : Alphabet[i] = ch
    ELSE 0

\* a < b on text, character by character
RECURSIVE text_lt(_, _)
text_lt(a, b) ==
    IF b = <<>> THEN FALSE
    ELSE IF a = <<>> THEN TRUE
    ELSE IF Head(a) = Head(b) THEN text_lt(Tail(a), Tail(b))
    ELSE char_rank(Head(a)) < char_rank(Head(b))

\* the keys of a groupby / of an index, ascending
RECURSIVE sorted_keys(_)
sorted_keys(S) ==
    IF S = {} THEN <<>>
    ELSE LET k == CHOOSE x \in S : \A y \in S \ {x} : text_lt(x.s, y.s)
         IN <<k>> \o sorted_keys(S \ {k})

RECURSIVE sorted_ints(_)
sorted_ints(S) ==
    IF S = {} THEN <<>>
    ELSE LET k == CHOOSE x \in S : \A y \in S : x <= y
         IN <<k>> \o sorted_ints(S \ {k})

remove_at(s, i) == SubSeq(s, 1, i - 1) \o SubSeq(s, i + 1, Len(s))

\* DataFrame.sort_values(by, ascending=ascending): the rows of s ordered by
\* their column `by`.  Rows that compare equal keep their order when tie_order
\* is "first" (a stable sort) and come out reversed when it is "last":
\* sort_values uses kind='quicksort', which promises neither.
RECURSIVE sort_values(_, _, _, _)
sort_values(s, by, ascending, tie_order) ==
    IF s = <<>> THEN <<>>
    ELSE LET best == {i \in 1..Len(s) : \A j \in 1..Len(s) :
                         IF ascending THEN ~FGt(s[i][by], s[j][by])
                                      ELSE ~FGt(s[j][by], s[i][by])}
             pick == IF tie_order = "first"
                     THEN CHOOSE i \in best : \A j \in best : i <= j
                     ELSE CHOOSE i \in best : \A j \in best : i >= j
         IN <<s[pick]>> \o sort_values(remove_at(s, pick), by, ascending, tie_order)

head(s, n) == SubSeq(s, 1, IF Len(s) < n THEN Len(s) ELSE n)

(***************************************************************************)
(* Section 4 of the script: core variables                                 *)
(***************************************************************************)
days_order == <<"Monday", "Tuesday", "Wednesday", "Thursday", "Friday",
                "Saturday", "Sunday">>

NaT == -1

\* Timestamp.date() / dt.normalize(): the calendar day of a date-time
date_of(c) == IF c.t = "date" THEN c.n \div TicksPerDay ELSE NaT

\* day_name() / strftime('%A'): day 1 of the proleptic calendar is a Monday
day_name(day) == days_order[((day - 1) % 7) + 1]

\* df[name], a Series
column(df, name) ==
    LET k == col_index(df, name) IN [i \in 1..Len(df.rows) |-> df.rows[i][k]]

\* df['Order Date'].dt.date
order_dates(df) ==
    LET c == column(df, OrderDate) IN [i \in 1..Len(c) |-> date_of(c[i])]

\* the calendar days present; max(), nunique() and groupby() skip NaT
dates_of(df) == Range(order_dates(df)) \ {NaT}

\* df[mask][name].sum()
sum_where(df, name, mask) ==
    LET c == column(df, name)
    IN SumSeq([i \in 1..Len(c) |-> IF mask[i] THEN c[i].n ELSE 0])

everything(df) == [i \in 1..Len(df.rows) |-> TRUE]

last_date(df) == LET ds == dates_of(df) IN CHOOSE d \in ds : \A e \in ds : e <= d

num_days(df) == Cardinality(dates_of(df))

month_total(df) == sum_where(df, TotalGrossBillAmount, everything(df))

\* daily_totals as it would be were a row matched to its day by its date-time
daily_totals_by_timestamp(df) ==
    LET c == column(df, OrderDate)
        days == sorted_ints(dates_of(df))
    IN [i \in 1..Len(days) |->
          LET mask == [j \in 1..Len(c) |-> c[j] = Date(days[i] * TicksPerDay)]
          IN [Date |-> days[i],
              TotalRevenue |-> sum_where(df, TotalGrossBillAmount, mask),
              TotalQuantity |-> sum_where(df, Quantity, mask)]]

daily_totals(df) ==
    LET on == order_dates(df)
        days == sorted_ints(dates_of(df))
    IN [i \in 1..Len(days) |->
          LET mask == [j \in 1..Len(on) |-> on[j] = days[i]]
          IN [Date |-> days[i],
              TotalRevenue |-> sum_where(df, TotalGrossBillAmount, mask),
              TotalQuantity |-> sum_where(df, Quantity, mask)]]

\* Series.mean(): NaN for an empty series
mean(s) == Frac(SumSeq(s), Len(s))


monthly_avg_revenue(daily) == mean([i \in 1..Len(daily) |-> daily[i].TotalRevenue])
monthly_avg_qty(daily) == mean([i \in 1..Len(daily) |-> daily[i].TotalQuantity])

\* daily_totals.iloc[-1]
last_day_rev(daily) == daily[Len(daily)].TotalRevenue
last_day_qty(daily) == daily[Len(daily)].TotalQuantity

last_day_df(df) ==
    LET on == order_dates(df)
        last == last_date(df)
    IN [df EXCEPT !.rows = SelectRows(df.rows, [i \in 1..Len(on) |-> on[i] = last])]

(***************************************************************************)
(* Section 6: growth reports, inventory merge, period comparison           *)
(***************************************************************************)
\* the keys of df.groupby(group_col): rows with an empty key are left out
group_keys(df, group_col) == Range(column(df, group_col)) \ {Blank}

\* one cell of df.groupby(group_col)[name].sum(), NaN where the groupby lacks
\* the key
group_sum(df, group_col, key, name) ==
    LET g == column(df, group_col)
    IN IF key \in Range(g)
       THEN F(sum_where(df, name, [i \in 1..Len(g) |-> g[i] = key]))
       ELSE NaN

\* growth without the replace(0, 1) of the denominator
growth_by_raw_average(last, avg) == FDiv(FSub(last, avg), avg)

\* line 177
growth(last, avg) == FDiv(FSub(last, avg), replace_0_1(avg))

\* lines 169-178 for one key; last is last_day_df and days is num_days
report_row(df, last, days, group_col, key) ==
    LET LastDayRev == fillna0(group_sum(last, group_col, key, TotalGrossBillAmount))
        TotalRev == fillna0(group_sum(df, group_col, key, TotalGrossBillAmount))
        DailyAvgRev == fillna0(FDiv(group_sum(df, group_col, key, TotalGrossBillAmount),
                                    F(days)))
        TotalQty == fillna0(group_sum(df, group_col, key, Quantity))
    IN [key |-> key,
        LastDayRev |-> replace_inf_0(LastDayRev),
        DailyAvgRev |-> replace_inf_0(DailyAvgRev),
        TotalRev |-> replace_inf_0(TotalRev),
        LastDayQty |-> replace_inf_0(fillna0(group_sum(last, group_col, key, Quantity))),
        DailyAvgQty |-> replace_inf_0(fillna0(
                          FDiv(group_sum(df, group_col, key, Quantity), F(days)))),
        TotalQty |-> replace_inf_0(TotalQty),
        Growth |-> replace_inf_0(growth(LastDayRev, DailyAvgRev))]

create_growth_report(df, last, days, group_col) ==
    IF ~has_column(df, group_col) THEN <<>>
    ELSE LET keys == sorted_keys(group_keys(last, group_col) \cup group_keys(df, group_col))
         IN [i \in 1..Len(keys) |-> report_row(df, last, days, group_col, keys[i])]

\* lines 184-188: the Stock column, a left join on the product name
stock_of(inv_df, key) ==
    IF has_column(inv_df, ItemName)
    THEN fillna0(group_sum(inv_df, ItemName, key, TotalSellable))
    ELSE F(0)

with_stock(report, inv_df) ==
    [i \in 1..Len(report) |->
        [key |-> report[i].key,
         LastDayRev |-> report[i].LastDayRev,
         DailyAvgRev |-> report[i].DailyAvgRev,
         TotalRev |-> report[i].TotalRev,
         LastDayQty |-> report[i].LastDayQty,
         DailyAvgQty |-> report[i].DailyAvgQty,
         TotalQty |-> report[i].TotalQty,
         Growth |-> report[i].Growth,
         Stock |-> stock_of(inv_df, report[i].key)]]

prod_report(df, last, days, inv_df) ==
    with_stock(create_growth_report(df, last, days, ProductName), inv_df)


\* lines 199-207 for one key of the outer merge
comparison_row(df, days, df_prev, num_days_prev, group_col, key) ==
    LET prev_rev == fillna0(FDiv(group_sum(df_prev, group_col, key, TotalGrossBillAmount),
                                 F(num_days_prev)))
        prev_qty == fillna0(FDiv(group_sum(df_prev, group_col, key, Quantity),
                                 F(num_days_prev)))
        curr_rev == fillna0(FDiv(group_sum(df, group_col, key, TotalGrossBillAmount),
                                 F(days)))
        curr_qty == fillna0(FDiv(group_sum(df, group_col, key, Quantity), F(days)))
    IN [key |-> key,
        PrevDailyAvgRev |-> prev_rev,
        CurrDailyAvgRev |-> curr_rev,
        RevGrowth |-> FDiv(FSub(curr_rev, prev_rev), replace_0_1(prev_rev)),
        PrevDailyAvgQty |-> prev_qty,
        CurrDailyAvgQty |-> curr_qty,
        QtyGrowth |-> FDiv(FSub(curr_qty, prev_qty), replace_0_1(prev_qty))]

\* generate_comparison with how='inner' in place of how='outer'
generate_comparison_inner(df, days, df_prev, group_col, tie_order) ==
    IF ~has_column(df, group_col) \/ ~has_column(df_prev, group_col) THEN <<>>
    ELSE LET keys == sorted_keys(group_keys(df_prev, group_col)
                                   \cap group_keys(df, group_col))
             num_days_prev == num_days(df_prev)
             merged == [i \in 1..Len(keys) |->
                          comparison_row(df, days, df_prev, num_days_prev, group_col,
                                         keys[i])]
         IN sort_values(merged, "CurrDailyAvgRev", FALSE, tie_order)

generate_comparison(df, days, df_prev, group_col, tie_order) ==
    IF ~has_column(df, group_col) \/ ~has_column(df_prev, group_col) THEN <<>>
    ELSE LET keys == sorted_keys(group_keys(df_prev, group_col)
                                   \cup group_keys(df, group_col))
             num_days_prev == num_days(df_prev)
             merged == [i \in 1..Len(keys) |->
                          comparison_row(df, days, df_prev, num_days_prev, group_col,
                                         keys[i])]
         IN sort_values(merged, "CurrDailyAvgRev", FALSE, tie_order)

comparison_sheets(df, days, df_prev, tie_order) ==
    IF df_prev # None
    THEN [Products |-> generate_comparison(df, days, df_prev, ProductName, tie_order),
          States |-> generate_comparison(df, days, df_prev, CustomerState, tie_order),
          Cities |-> generate_comparison(df, days, df_prev, CustomerCity, tie_order)]
    ELSE [Products |-> <<>>, States |-> <<>>, Cities |-> <<>>]

(***************************************************************************)
(* Section 7: the growth leaders of the WhatsApp summary                   *)
(***************************************************************************)
TopSellers == 12
TopGrowth == 5
PerformerFloor == 1000

top_12(report, tie_order) ==
    head(sort_values(report, "LastDayRev", FALSE, tie_order), TopSellers)

\* the growth leaders taken from the whole report in one pass
top_5_growth_of_all(report, tie_order) ==
    head(sort_values(report, "Growth", FALSE, tie_order), TopGrowth)

top_5_growth(report, tie_order) ==
    head(sort_values(top_12(report, tie_order), "Growth", FALSE, tie_order), TopGrowth)

\* idxmax(): the first row holding the largest Last Day Rev
top_state(report) ==
    report[CHOOSE i \in 1..Len(report) :
              /\ \A j \in 1..Len(report) : FGe(report[i].LastDayRev, report[j].LastDayRev)
              /\ \A j \in 1..(i - 1) : report[j].LastDayRev # report[i].LastDayRev]

(***************************************************************************)
(* Section 8: the sheets of the export                                     *)
(***************************************************************************)
\* is_performer with > 1000 in place of >= 1000
is_performer_above_floor(row) ==
    FGt(row.LastDayRev, row.DailyAvgRev) /\ FGt(row.LastDayRev, F(PerformerFloor))

is_performer(row) ==
    FGt(row.LastDayRev, row.DailyAvgRev) /\ FGe(row.LastDayRev, F(PerformerFloor))

performers(report) ==
    SelectRows(report, [i \in 1..Len(report) |-> is_performer(report[i])])

performers_sorted(report, tie_order) ==
    sort_values(performers(report), "Growth", FALSE, tie_order)

\* line 320: the mean of the daily totals of one weekday, NaN for a weekday
\* that reindex(days_order) adds because no day of the series falls on it
weekday_mean(daily, name, col) ==
    LET on == SelectRows(daily, [i \in 1..Len(daily) |-> day_name(daily[i].Date) = name])
    IN mean([i \in 1..Len(on) |-> on[i][col]])

\* weekly_stats with the last day's revenue written over that weekday's mean
weekly_stats_overwritten(daily, last_day_name) ==
    [i \in 1..Len(days_order) |->
        [Day |-> days_order[i],
         TotalRevenue |-> IF days_order[i] = last_day_name THEN F(last_day_rev(daily))
                          ELSE weekday_mean(daily, days_order[i], "TotalRevenue"),
         TotalQuantity |-> weekday_mean(daily, days_order[i], "TotalQuantity"),
         LastDayRev |-> IF days_order[i] = last_day_name
                        THEN F(last_day_rev(daily)) ELSE F(0)]]

\* lines 320-326
weekly_stats(daily, last_day_name) ==
    [i \in 1..Len(days_order) |->
        [Day |-> days_order[i],
         TotalRevenue |-> weekday_mean(daily, days_order[i], "TotalRevenue"),
         TotalQuantity |-> weekday_mean(daily, days_order[i], "TotalQuantity"),
         LastDayRev |-> IF last_day_name \in Range(days_order)
                           /\ days_order[i] = last_day_name
                        THEN F(last_day_rev(daily)) ELSE F(0)]]

\* lines 330-333
wh_inv(inv_df, tie_order) ==
    IF has_column(inv_df, IncomingScheduled) /\ has_column(inv_df, Last30Days)
    THEN LET a == column(inv_df, TotalSellable)
             b == column(inv_df, IncomingScheduled)
             c == column(inv_df, Last30Days)
         IN sort_values(
              [i \in 1..Len(a) |->
                  [TotalSellable |-> a[i].n,
                   IncomingScheduled |-> b[i].n,
                   Last30Days |-> c[i].n,
                   ProjectedInventory |-> F(a[i].n + b[i].n - c[i].n)]],
              "ProjectedInventory", TRUE, tie_order)
    ELSE <<>>

total_stock(inv_df) == sum_where(inv_df, TotalSellable, everything(inv_df))

(***************************************************************************)
(* One run of the script, from the login gate to the download button       *)
(***************************************************************************)
PASSWORD == <<"kressa_admin">>

\* lines 119-353: what a run renders once both frames are loaded
dashboard(df, df_prev, inv_df, tie_order) ==
    LET last == last_day_df(df)
        days == num_days(df)
        daily == daily_totals(df)
        last_day_name == day_name(last_date(df))
        products == prod_report(df, last, days, inv_df)
        states == create_growth_report(df, last, days, CustomerState)
    IN [page |-> "dashboard",
        df |-> df, df_prev |-> df_prev, inv_df |-> inv_df,
        last_date |-> last_date(df),
        num_days |-> days,
        month_total |-> month_total(df),
        daily_totals |-> daily,
        monthly_avg_revenue |-> monthly_avg_revenue(daily),
        monthly_avg_qty |-> monthly_avg_qty(daily),
        last_day_rev |-> last_day_rev(daily),
        last_day_qty |-> last_day_qty(daily),
        last_day_name |-> last_day_name,
        status |-> IF FGt(F(last_day_rev(daily)), monthly_avg_revenue(daily))
                   THEN "HIGHER" ELSE "LOWER",
        total_stock |-> total_stock(inv_df),
        prod_report |-> products,
        state_report |-> states,
        city_report |-> create_growth_report(df, last, days, CustomerCity),
        comparison_sheets |-> comparison_sheets(df, days, df_prev, tie_order),
        top_12 |-> top_12(products, tie_order),
        top_5_growth |-> top_5_growth(products, tie_order),
        top_state |-> IF states # <<>> THEN <<top_state(states)>> ELSE <<>>,
        performers_sorted |-> performers_sorted(products, tie_order),
        weekly_stats |-> weekly_stats(daily, last_day_name),
        wh_inv |-> wh_inv(inv_df, tie_order)]

\* lines 112-356.  A run that raises shows the exception and renders nothing
\* else: daily_totals.iloc[-1] raises IndexError on a frame without rows, and
\* df.groupby('Product Name') raises KeyError without that column.
analysis(cur, prev, inv, tie_order) ==
    IF cur # None /\ inv # None
    THEN LET df == load_smart_sales(cur)
             df_prev == IF prev # None THEN load_smart_sales(prev) ELSE None
             inv_df == load_smart_inventory(inv)
         IN IF df # None /\ inv_df # None
            THEN IF df.rows = <<>>
                 THEN [page |-> "error", raised |-> "IndexError",
                       df |-> df, df_prev |-> df_prev, inv_df |-> inv_df]
                 ELSE IF ~has_column(df, ProductName)
                      THEN [page |-> "error", raised |-> "KeyError",
                            df |-> df, df_prev |-> df_prev, inv_df |-> inv_df]
                      ELSE dashboard(df, df_prev, inv_df, tie_order)
            ELSE [page |-> "blank", df |-> df, df_prev |-> df_prev, inv_df |-> inv_df]
    ELSE [page |-> "info"]

\* the script without the st.stop() of line 34
script_without_stop(auth, cur, prev, inv, tie_order) ==
    analysis(cur, prev, inv, tie_order)

\* lines 15-34: check_password() and st.stop()
script(auth, cur, prev, inv, tie_order) ==
    IF auth THEN analysis(cur, prev, inv, tie_order) ELSE [page |-> "login"]

(***************************************************************************)
(* The uploads the model draws from                                        *)
(***************************************************************************)
Workbook(sheets) == [t |-> "file", sheets |-> sheets]
Sheet(name, rows) == [name |-> name, rows |-> rows]

At(day, tick) == Date(day * TicksPerDay + tick)

FullHeader ==
    <<Str(OrderDate), Str(ProductName), Str(CustomerState), Str(CustomerCity),
      Str(Quantity), Str(TotalGrossBillAmount)>>

\* the same names as an export pads them
PaddedHeader ==
    <<Str(<<" ">> \o OrderDate), Str(ProductName \o <<" ">>), Str(CustomerState),
      Str(CustomerCity), Str(<<" ">> \o Quantity \o <<" ">>), Str(TotalGrossBillAmount)>>

TitleRow == <<Str(<<"Sales", " ", "report">>), Blank, Blank, Blank, Blank, Blank>>

without_column(rows, k) == [i \in 1..Len(rows) |-> remove_at(rows[i], k)]

\* Order dates: three calendar days, two of them a week apart, and a cell
\* that is no date
DateKinds == <<1, 2, 8, 0>>

\* product, amount and quantity cell of a sale; -500 is a refund
SaleKinds ==
    <<[p |-> <<"A">>, amt |-> Num(-500), qty |-> Num(1), tick |-> 0],
      [p |-> <<"A">>, amt |-> Num(500), qty |-> Str(<<"n/a">>), tick |-> 0],
      [p |-> <<"A">>, amt |-> Num(1000), qty |-> Num(3), tick |-> 1],
      [p |-> <<"B">>, amt |-> Num(900), qty |-> Num(2), tick |-> 1]>>

NumKinds == Len(DateKinds) * Len(SaleKinds)

sales_row(k) ==
    LET d == DateKinds[((k - 1) \div Len(SaleKinds)) + 1]
        sale == SaleKinds[((k - 1) % Len(SaleKinds)) + 1]
    IN <<IF d = 0 THEN Str(<<"pending">>) ELSE At(d, sale.tick),
         Str(sale.p),
         Str(IF d = 1 THEN <<"U">> ELSE <<"V">>),
         Str(IF sale.p = <<"A">> THEN <<"X">> ELSE <<"Y">>),
         sale.qty, sale.amt>>

\* the row kinds of a sheet, in non-decreasing order, at most MaxRows of them
RowChoices ==
    UNION {{s \in [1..n -> 1..NumKinds] : \A i \in 1..(n - 1) : s[i] <= s[i + 1]} :
              n \in 0..MaxRows}

sales_rows(choice) == [i \in 1..Len(choice) |-> sales_row(choice[i])]

SalesFiles ==
    {Workbook(<<Sheet("Sheet1", <<FullHeader>> \o sales_rows(c))>>) : c \in RowChoices}

\* the same with one row fewer, for the runs that compare two months
ShortSalesFiles == {f \in SalesFiles : Len(f.sheets[1].rows) <= MaxRows}

\* a few sheets under each header the loader accepts
FewRows == {<<6, 11>>, <<2, 8, 12>>, <<13, 14>>}

\* a sale without a city whose amount is no number
odd_row == <<At(2, 1), Str(<<"B">>), Str(<<"V">>), Blank, Num(4), Str(<<"-">>)>>

HeaderVariantFiles ==
    {Workbook(<<Sheet("Sheet1", <<FullHeader, sales_row(2), odd_row>>)>>)}
    \cup {Workbook(<<Sheet("Sheet1", <<TitleRow, PaddedHeader>> \o sales_rows(c))>>) :
        c \in FewRows}
    \cup {Workbook(<<Sheet("Sheet1",
                        without_column(<<FullHeader>> \o sales_rows(c), k))>>) :
             c \in FewRows, k \in {2, 3, 4, 5, 6}}

\* previous-month uploads: a product and a state the current month lacks
prev_row(day, p, st, amt, qty) ==
    <<At(day, 0), Str(p), Str(st), Str(<<"X">>), Num(qty), Num(amt)>>

PrevFiles ==
    {None,
     Workbook(<<Sheet("Sheet1", <<FullHeader, prev_row(1, <<"A">>, <<"U">>, 750, 2),
                                  prev_row(2, <<"C">>, <<"W">>, 300, 1)>>)>>),
     Workbook(<<Sheet("Sheet1", without_column(
                 <<FullHeader, prev_row(1, <<"B">>, <<"U">>, 0, 0),
                   prev_row(1, <<"C">>, <<"W">>, 400, 5)>>, 3))>>),
     Workbook(<<Sheet("Sheet1", <<FullHeader, sales_row(13)>>)>>)}

InvHeader ==
    <<Str(ItemName), Str(TotalSellable), Str(IncomingScheduled), Str(Last30Days)>>

inv_row(item, a, b, c) == <<Str(item), Num(a), Num(b), Num(c)>>

InvFile ==
    Workbook(<<Sheet("Stock", <<InvHeader, inv_row(<<"A">>, 40, 10, 60),
                              inv_row(<<"A">>, 5, 0, 0),
                              inv_row(<<"Z">>, 7, 3, 2)>>)>>)

\* a cover sheet first, the header under a title, the optional columns absent
InvFiles ==
    {InvFile,
     Workbook(<<Sheet("Cover", <<<<Str(<<"Stock", " ", "report">>), Blank>>>>),
                Sheet("Data", <<<<Str(<<"as", " ", "of">>), Blank>>,
                                <<Str(<<" ">> \o TotalSellable), Str(ItemName \o <<" ">>)>>,
                                <<Num(12), Str(<<"B">>)>>,
                                <<Str(<<"?">>), Str(<<"A">>)>>>>)>>)}

(***************************************************************************)
(* The session: every widget event reruns the script                       *)
(***************************************************************************)
Passwords == {<<>>, <<"admin">>, PASSWORD}

TieOrders == {"first", "last"}

SessionSales == {None} \cup {f \in HeaderVariantFiles : f.sheets[1].rows[1] = TitleRow}

SessionInv == {None} \cup InvFiles

login_page(error) == [page |-> "login", error |-> error]

\* st.text_input on the login page
EnterPassword(pw) ==
    /\ ~authenticated
    /\ password' = pw
    /\ out' = login_page(FALSE)
    /\ UNCHANGED <<authenticated, current_file, prev_file, inv_file, ties>>

\* st.button("Login"), lines 25-30
ClickLogin ==
    /\ ~authenticated
    /\ IF password = PASSWORD
       THEN /\ authenticated' = TRUE
            /\ out' = script(TRUE, current_file, prev_file, inv_file, ties)
       ELSE /\ authenticated' = FALSE
            /\ out' = login_page(TRUE)
    /\ UNCHANGED <<password, current_file, prev_file, inv_file, ties>>

\* st.sidebar.button("Logout"), lines 108-110, and the rerun it asks for
ClickLogout ==
    /\ authenticated
    /\ authenticated' = FALSE
    /\ out' = script(FALSE, current_file, prev_file, inv_file, ties)
    /\ UNCHANGED <<password, current_file, prev_file, inv_file, ties>>

\* the three st.sidebar.file_uploader widgets, lines 104-106
UploadCurrent(f) ==
    /\ authenticated
    /\ current_file' = f
    /\ out' = script(authenticated, f, prev_file, inv_file, ties)
    /\ UNCHANGED <<authenticated, password, prev_file, inv_file, ties>>

UploadPrev(f) ==
    /\ authenticated
    /\ prev_file' = f
    /\ out' = script(authenticated, current_file, f, inv_file, ties)
    /\ UNCHANGED <<authenticated, password, current_file, inv_file, ties>>

UploadInv(f) ==
    /\ authenticated
    /\ inv_file' = f
    /\ out' = script(authenticated, current_file, prev_file, f, ties)
    /\ UNCHANGED <<authenticated, password, current_file, prev_file, ties>>

Init ==
    /\ authenticated = FALSE
    /\ password = <<>>
    /\ current_file = None
    /\ prev_file = None
    /\ inv_file = None
    /\ ties \in TieOrders
    /\ out = login_page(FALSE)

Next ==
    \/ \E pw \in Passwords : EnterPassword(pw)
    \/ ClickLogin
    \/ ClickLogout
    \/ \E f \in SessionSales : UploadCurrent(f)
    \/ \E f \in SessionSales : UploadPrev(f)
    \/ \E f \in SessionInv : UploadInv(f)

Spec == Init /\ [][Next]_vars

(***************************************************************************)
(* One analysis run over uploads drawn from the sets above                 *)
(***************************************************************************)
Pending == [page |-> "pending"]

\* the run of the script that follows the last upload
Rerun ==
    /\ out = Pending
    /\ out' = script(authenticated, current_file, prev_file, inv_file, ties)
    /\ UNCHANGED <<authenticated, password, current_file, prev_file, inv_file, ties>>

InitAnalysis ==
    /\ authenticated = TRUE
    /\ password = PASSWORD
    /\ \/ current_file \in SalesFiles /\ prev_file = None /\ inv_file = InvFile
       \/ current_file \in ShortSalesFiles /\ prev_file \in PrevFiles \ {None}
            /\ inv_file = InvFile
       \/ current_file \in HeaderVariantFiles /\ prev_file \in PrevFiles
            /\ inv_file \in InvFiles
    /\ ties \in TieOrders
    /\ out = Pending

SpecAnalysis == InitAnalysis /\ [][Rerun]_vars

(***************************************************************************)
(* Runs over catalogues large enough for the cut at twelve sellers         *)
(***************************************************************************)
FixedNames == <<"B", "C", "D", "E", "F", "G", "I", "J", "K", "L", "M", "N", "O", "P">>
FreeNames == <<"A", "H", "Z">>

sale(day, p, amt) == <<At(day, 0), Str(<<p>>), Str(<<"U">>), Str(<<"X">>), Num(1), Num(amt)>>

\* product i of the fixed part: sales on the last day and on an earlier day
fixed_rows(i) ==
    <<sale(1, FixedNames[i], 250 * ((i % 4) + 1)),
      sale(2, FixedNames[i], 1000 + 100 * (i % 3))>>

RECURSIVE fixed_part(_)
fixed_part(n) == IF n = 0 THEN <<>> ELSE fixed_part(n - 1) \o fixed_rows(n)

\* a free product: its last-day sale, and an earlier sale unless early = 0
free_rows(name, lastAmt, early) ==
    (IF early = 0 THEN <<>> ELSE <<sale(1, name, early)>>) \o <<sale(2, name, lastAmt)>>

FreeLast == {900, 1200, 5000}
FreeEarly == {0, 3000}

RankFiles ==
    {Workbook(<<Sheet("Sheet1",
        <<FullHeader>> \o fixed_part(n)
          \o free_rows(FreeNames[1], l[1], e[1])
          \o free_rows(FreeNames[2], l[2], e[2])
          \o free_rows(FreeNames[3], l[3], e[3]))>>) :
        n \in 0..NumFixed, l \in [1..3 -> FreeLast], e \in [1..3 -> FreeEarly]}

InitRank ==
    /\ authenticated = TRUE
    /\ password = PASSWORD
    /\ current_file \in RankFiles
    /\ prev_file = None
    /\ inv_file = InvFile
    /\ ties \in TieOrders
    /\ out = Pending

SpecRank == InitRank /\ [][Rerun]_vars

(***************************************************************************)
(* Runs over sheets whose header is displaced, padded or incomplete        *)
(***************************************************************************)
\* a sales header that names the quantity column differently
HeaderNoQuantity == [FullHeader EXCEPT ![5] = Str(<<"Units">>)]
PaddedNoQuantity == [PaddedHeader EXCEPT ![5] = Str(<<"Units">>)]

fill(n, row) == [i \in 1..n |-> row]

FirstRows == {<<>>, <<TitleRow>>, <<HeaderNoQuantity>>, <<PaddedNoQuantity>>}
SalesHeaders == {<<FullHeader>>, <<PaddedHeader>>, <<HeaderNoQuantity>>, <<>>}

IngestSalesFiles ==
    {Workbook(<<Sheet("Sheet1",
        first \o fill(n, TitleRow) \o header \o <<sales_row(6), sales_row(13)>>)>>) :
        first \in FirstRows, n \in 0..MaxFill, header \in SalesHeaders}

InvTitle == <<Str(<<"Stock", " ", "report">>), Blank, Blank, Blank>>
PaddedInvHeader ==
    <<Str(ItemName \o <<" ">>), Str(<<" ">> \o TotalSellable), Str(IncomingScheduled),
      Str(Last30Days)>>
InvHeaderNoSellable == [InvHeader EXCEPT ![2] = Str(<<"Sellable">>)]

InvHeaders == {<<InvHeader>>, <<PaddedInvHeader>>, <<InvHeaderNoSellable>>, <<>>}

inv_sheet(name, n, header) ==
    Sheet(name, fill(n, InvTitle) \o header \o <<inv_row(<<"A">>, 40, 10, 60)>>)

IngestInvFiles ==
    {Workbook(<<inv_sheet("Stock", n, header)>>) : n \in 0..MaxFill, header \in InvHeaders}
    \cup {Workbook(<<inv_sheet("Cover", n1, h1), inv_sheet("Stock", n2, h2)>>) :
             n1 \in {2, PreviewRows}, h1 \in {<<InvHeader>>, <<>>},
             n2 \in {0, PreviewRows}, h2 \in {<<PaddedInvHeader>>, <<>>}}

InitIngest ==
    /\ authenticated = TRUE
    /\ password = PASSWORD
    /\ \/ current_file \in IngestSalesFiles /\ inv_file = InvFile
       \/ current_file \in HeaderVariantFiles /\ inv_file \in IngestInvFiles
    /\ prev_file = None
    /\ ties \in TieOrders
    /\ out = Pending

SpecIngest == InitIngest /\ [][Rerun]_vars

(***************************************************************************)
(* The claims.  The helpers below restate, over the loaded frame a run     *)
(* keeps in out, what the claims say the tables hold.                      *)
(***************************************************************************)
RECURSIVE SumOver(_, _)
SumOver(f(_), S) ==
    IF S = {} THEN 0
    ELSE LET x == CHOOSE y \in S : TRUE IN f(x) + SumOver(f, S \ {x})

Min(a, b) == IF a < b THEN a ELSE b

Rows(df) == 1..Len(df.rows)
Value(df, i, name) == df.rows[i][col_index(df, name)]
DayOf(df, i) == Value(df, i, OrderDate).n \div TicksPerDay
Days(df) == {DayOf(df, i) : i \in Rows(df)}
LastDay(df) == CHOOSE d \in Days(df) : \A e \in Days(df) : e <= d
Keys(df, name) ==
    IF has_column(df, name) THEN {Value(df, i, name) : i \in Rows(df)} \ {Blank} ELSE {}

Revenue(df, S) == LET amount(i) == Value(df, i, TotalGrossBillAmount).n IN SumOver(amount, S)

Dashboard == out.page = "dashboard"

Reports ==
    <<[name |-> ProductName, rows |-> out.prod_report],
      [name |-> CustomerState, rows |-> out.state_report],
      [name |-> CustomerCity, rows |-> out.city_report]>>

Comparisons ==
    <<[name |-> ProductName, rows |-> out.comparison_sheets.Products],
      [name |-> CustomerState, rows |-> out.comparison_sheets.States],
      [name |-> CustomerCity, rows |-> out.comparison_sheets.Cities]>>

KeysIn(table) == {table[i].key : i \in 1..Len(table)}

\* C1: the Total Revenue of the daily series adds up to the month total, which
\* is the gross amount of every loaded row: each row is counted on exactly
\* one day.
C1_DailySeriesPartitionsTotal ==
    Dashboard =>
        /\ SumSeq([i \in 1..Len(out.daily_totals) |-> out.daily_totals[i].TotalRevenue])
             = out.month_total
        /\ out.month_total = Revenue(out.df, Rows(out.df))
        /\ \A i \in 1..Len(out.daily_totals) :
              out.daily_totals[i].TotalRevenue
                = Revenue(out.df, {r \in Rows(out.df) :
                                      DayOf(out.df, r) = out.daily_totals[i].Date})

\* several days, one of them with sales at different times of day
C1_Witness ==
    /\ Dashboard
    /\ Len(out.daily_totals) >= 2
    /\ \E i, j \in Rows(out.df) :
          /\ DayOf(out.df, i) = DayOf(out.df, j)
          /\ Value(out.df, i, OrderDate) # Value(out.df, j, OrderDate)
          /\ Value(out.df, i, TotalGrossBillAmount).n > 0
          /\ Value(out.df, j, TotalGrossBillAmount).n > 0

\* C6: in every growth report, Last Day Rev is the group's revenue on the
\* latest calendar day, Daily Avg Rev its total revenue over the number of
\* distinct days of the whole frame, and Growth % is (last - avg) / avg, or
\* the last-day revenue itself when the average is 0.
C6_GrowthRatio ==
    Dashboard =>
        \A k \in 1..Len(Reports) :
            /\ KeysIn(Reports[k].rows) = Keys(out.df, Reports[k].name)
            /\ \A i \in 1..Len(Reports[k].rows) :
                  LET row == Reports[k].rows[i]
                      group == {r \in Rows(out.df) :
                                   Value(out.df, r, Reports[k].name) = row.key}
                      last == F(Revenue(out.df, {r \in group :
                                                    DayOf(out.df, r) = LastDay(out.df)}))
                      avg == Frac(Revenue(out.df, group), Cardinality(Days(out.df)))
                  IN /\ row.LastDayRev = last
                     /\ row.DailyAvgRev = avg
                     /\ row.Growth = IF avg # F(0) THEN FDiv(FSub(last, avg), avg) ELSE last

\* a product whose daily average is 0 and whose last day brought 500
C6_Witness ==
    /\ Dashboard
    /\ \E i \in 1..Len(out.prod_report) :
          /\ out.prod_report[i].DailyAvgRev = F(0)
          /\ out.prod_report[i].LastDayRev = F(500)
          /\ out.prod_report[i].Growth = F(500)
    /\ \E i \in 1..Len(out.state_report) : out.state_report[i].DailyAvgRev # F(0)

ComparisonRowsRight(k) ==
    \A i \in 1..Len(Comparisons[k].rows) :
        LET row == Comparisons[k].rows[i]
        IN /\ IsFinite(row.RevGrowth) /\ IsFinite(row.QtyGrowth)
           /\ IsFinite(row.PrevDailyAvgRev) /\ IsFinite(row.CurrDailyAvgRev)
           /\ row.key \notin Keys(out.df, Comparisons[k].name)
                 => row.CurrDailyAvgRev = F(0) /\ row.CurrDailyAvgQty = F(0)
           /\ row.key \notin Keys(out.df_prev, Comparisons[k].name)
                 => row.PrevDailyAvgRev = F(0) /\ row.PrevDailyAvgQty = F(0)

\* C7 as stated: with a previous period, each comparison table holds the keys
\* of both periods, a key of one period only with 0 for the other, and finite
\* growth ratios.
C7_OuterJoinEveryDimension ==
    (Dashboard /\ out.df_prev # None) =>
        \A k \in 1..Len(Comparisons) :
            /\ KeysIn(Comparisons[k].rows)
                 = Keys(out.df_prev, Comparisons[k].name) \cup Keys(out.df, Comparisons[k].name)
            /\ ComparisonRowsRight(k)

\* C7 as amended: the same for every grouping column that both frames have;
\* the table of a column that either frame lacks is empty.
C7_OuterJoinWhereBothHaveColumn ==
    (Dashboard /\ out.df_prev # None) =>
        \A k \in 1..Len(Comparisons) :
            IF has_column(out.df, Comparisons[k].name)
               /\ has_column(out.df_prev, Comparisons[k].name)
            THEN /\ KeysIn(Comparisons[k].rows)
                      = Keys(out.df_prev, Comparisons[k].name)
                          \cup Keys(out.df, Comparisons[k].name)
                 /\ Len(Comparisons[k].rows) = Cardinality(KeysIn(Comparisons[k].rows))
                 /\ ComparisonRowsRight(k)
            ELSE Comparisons[k].rows = <<>>

\* a product sold only in the previous month and one sold only in this month
C7_Witness ==
    /\ Dashboard
    /\ out.df_prev # None
    /\ \E i, j \in 1..Len(out.comparison_sheets.Products) :
          LET a == out.comparison_sheets.Products[i]
              b == out.comparison_sheets.Products[j]
          IN /\ a.key \notin Keys(out.df, ProductName)
             /\ a.CurrDailyAvgRev = F(0)
             /\ a.PrevDailyAvgRev # F(0)
             /\ a.RevGrowth = F(-1)
             /\ b.key \notin Keys(out.df_prev, ProductName)
             /\ b.CurrDailyAvgRev # F(0)

\* C8: the Last Day Performers sheet holds exactly the products whose Last Day
\* Rev exceeds their Daily Avg Rev and is at least 1000, each once, in
\* descending order of Growth %.
C8_LastDayPerformers ==
    Dashboard =>
        LET P == out.performers_sorted
        IN /\ \A i \in 1..Len(out.prod_report) :
                 LET row == out.prod_report[i]
                 IN (row \in Range(P))
                      <=> (FGt(row.LastDayRev, row.DailyAvgRev) /\ FGe(row.LastDayRev, F(1000)))
           /\ Range(P) \subseteq Range(out.prod_report)
           /\ Len(P) = Cardinality(Range(P))
           /\ \A i, j \in 1..Len(P) : i < j => FGe(P[i].Growth, P[j].Growth)

\* one product at 900 above its average is left out, one at exactly 1000 is in
C8_Witness ==
    /\ Dashboard
    /\ \E i, j \in 1..Len(out.prod_report) :
          LET a == out.prod_report[i]
              b == out.prod_report[j]
          IN /\ a.LastDayRev = F(900) /\ FGt(a.LastDayRev, a.DailyAvgRev)
             /\ a \notin Range(out.performers_sorted)
             /\ b.LastDayRev = F(1000) /\ FGt(b.LastDayRev, b.DailyAvgRev)
             /\ b \in Range(out.performers_sorted)

WeekdayDays(name) ==
    {i \in 1..Len(out.daily_totals) :
        days_order[((out.daily_totals[i].Date - 1) % 7) + 1] = name}

\* C9: the weekly table lists Monday to Sunday; each row holds the mean daily
\* revenue and quantity of that weekday's days (no number when the series has
\* no such day), and its Last Day Rev slot holds the last day's revenue on the
\* row of the last day's weekday and 0 on the six others.
C9_WeeklyPattern ==
    Dashboard =>
        /\ Len(out.weekly_stats) = 7
        /\ \A i \in 1..Len(out.weekly_stats) :
              LET row == out.weekly_stats[i]
                  on == WeekdayDays(row.Day)
                  rev(d) == out.daily_totals[d].TotalRevenue
                  qty(d) == out.daily_totals[d].TotalQuantity
              IN /\ row.Day = <<"Monday", "Tuesday", "Wednesday", "Thursday", "Friday",
                                "Saturday", "Sunday">>[i]
                 /\ row.TotalRevenue = Frac(SumOver(rev, on), Cardinality(on))
                 /\ row.TotalQuantity = Frac(SumOver(qty, on), Cardinality(on))
                 /\ row.LastDayRev =
                       IF Len(out.daily_totals) \in on
                       THEN F(out.daily_totals[Len(out.daily_totals)].TotalRevenue)
                       ELSE F(0)

\* the last day's weekday occurs twice with different revenue, and another
\* weekday occurs too
C9_Witness ==
    /\ Dashboard
    /\ \E i, j \in 1..Len(out.weekly_stats) :
          /\ i # j
          /\ Cardinality(WeekdayDays(out.weekly_stats[i].Day)) = 2
          /\ out.weekly_stats[i].LastDayRev # F(0)
          /\ out.weekly_stats[i].LastDayRev # out.weekly_stats[i].TotalRevenue
          /\ Cardinality(WeekdayDays(out.weekly_stats[j].Day)) = 1
          /\ out.weekly_stats[j].TotalRevenue # F(0)
          /\ out.weekly_stats[j].LastDayRev = F(0)

\* C4: the growth leaders are min(5, number of products) products, all among
\* the 12 with the highest Last Day Rev, and they are the highest-growth
\* products of those 12, in descending order of Growth %.
C4_GrowthLeadersAmongTopSellers ==
    Dashboard =>
        LET R == out.prod_report
            T == out.top_12
            G == out.top_5_growth
        IN /\ Len(G) = Min(5, Len(R))
           /\ Len(G) = Cardinality(Range(G))
           /\ \A i \in 1..Len(G) :
                 Cardinality({r \in Range(R) : FGt(r.LastDayRev, G[i].LastDayRev)}) < 12
           /\ Len(T) = Min(12, Len(R))
           /\ Len(T) = Cardinality(Range(T))
           /\ Range(T) \subseteq Range(R)
           /\ \A t \in Range(T) : \A r \in Range(R) \ Range(T) :
                 FGe(t.LastDayRev, r.LastDayRev)
           /\ Range(G) \subseteq Range(T)
           /\ \A g \in Range(G) : \A t \in Range(T) \ Range(G) : FGe(g.Growth, t.Growth)
           /\ \A i, j \in 1..Len(G) : i < j => FGe(G[i].Growth, G[j].Growth)

\* more than 12 products, the one with the highest growth of all outside the
\* 12 best sellers, and five leaders listed
C4_Witness ==
    /\ Dashboard
    /\ Len(out.prod_report) > 12
    /\ Len(out.top_5_growth) = 5
    /\ \E r \in Range(out.prod_report) :
          /\ r \notin Range(out.top_12)
          /\ \A q \in Range(out.prod_report) \ {r} : FGt(r.Growth, q.Growth)

Trimmed(c) == IF c.t = "str" THEN strip(c.s) ELSE <<>>

\* the first of the first ten rows (counted from 1) whose trimmed cells
\* include both names, or 0
FirstHeaderRow(rows, a, b) ==
    LET hits == {i \in 1..Min(Len(rows), 10) :
                    /\ \E j \in 1..Len(rows[i]) : Trimmed(rows[i][j]) = a
                    /\ \E j \in 1..Len(rows[i]) : Trimmed(rows[i][j]) = b}
    IN IF hits = {} THEN 0 ELSE CHOOSE i \in hits : \A j \in hits : i <= j

UsesHeader(df, rows, h) ==
    /\ df # None
    /\ \A j \in 1..Len(rows[h]) : df.columns[j] = Str(Trimmed(rows[h][j]))

SalesFound ==
    LET rows == current_file.sheets[1].rows
        h == FirstHeaderRow(rows, OrderDate, Quantity)
    IN /\ (out.df # None) <=> (h # 0)
       /\ h # 0 => UsesHeader(out.df, rows, h)

InventoryFound ==
    LET sheets == inv_file.sheets
        with == {k \in 1..Len(sheets) :
                    FirstHeaderRow(sheets[k].rows, ItemName, TotalSellable) # 0}
    IN /\ (out.inv_df # None) <=> (with # {})
       /\ with # {} =>
             LET k == CHOOSE x \in with : \A y \in with : x <= y
                 h == FirstHeaderRow(sheets[k].rows, ItemName, TotalSellable)
             IN /\ UsesHeader(out.inv_df, sheets[k].rows, h)
                /\ Len(out.inv_df.rows) = Len(sheets[k].rows) - h

\* C2: a workbook is loaded exactly when one of the first ten rows of a
\* scanned sheet holds, trimmed, both required names, and then the first such
\* row of the first such sheet is its header; otherwise the loader reports
\* that it found none and the run has no frame.
C2_HeaderFoundIffInWindow ==
    out.page \in {"blank", "error", "dashboard"} => SalesFound /\ InventoryFound

\* the rows under the located header whose Order Date cell is a date
DatedRows ==
    LET raw == strip_columns(locate_sales(current_file))
    IN {i \in Rows(raw) : Value(raw, i, OrderDate).t = "date"}

\* C3: once the header is located (and the frame has the product column the
\* charts need), the run completes whatever the dates are; it keeps every row
\* with a date and counts no other row.
C3_UnparsableDatesNeverAbort ==
    (out.page \in {"error", "dashboard"} /\ has_column(out.df, ProductName)) =>
        /\ out.page = "dashboard"
        /\ Len(out.df.rows) = Cardinality(DatedRows)
        /\ out.num_days = Cardinality(Days(out.df))
        /\ out.month_total = Revenue(out.df, Rows(out.df))

FiniteReport(rows) ==
    \A i \in 1..Len(rows) :
        /\ IsFinite(rows[i].LastDayRev) /\ IsFinite(rows[i].DailyAvgRev)
        /\ IsFinite(rows[i].TotalRev) /\ IsFinite(rows[i].LastDayQty)
        /\ IsFinite(rows[i].DailyAvgQty) /\ IsFinite(rows[i].TotalQty)
        /\ IsFinite(rows[i].Growth)

FiniteComparison(rows) ==
    \A i \in 1..Len(rows) :
        /\ IsFinite(rows[i].PrevDailyAvgRev) /\ IsFinite(rows[i].CurrDailyAvgRev)
        /\ IsFinite(rows[i].RevGrowth) /\ IsFinite(rows[i].PrevDailyAvgQty)
        /\ IsFinite(rows[i].CurrDailyAvgQty) /\ IsFinite(rows[i].QtyGrowth)

FiniteWeekly(rows) ==
    \A i \in 1..Len(rows) :
        /\ IsFinite(rows[i].TotalRevenue) /\ IsFinite(rows[i].TotalQuantity)
        /\ IsFinite(rows[i].LastDayRev)

\* C5: no number of a completed run is NaN or infinite.
C5_NoNonFiniteValue ==
    Dashboard =>
        /\ IsFinite(out.monthly_avg_revenue) /\ IsFinite(out.monthly_avg_qty)
        /\ \A k \in 1..Len(Reports) : FiniteReport(Reports[k].rows)
        /\ \A i \in 1..Len(out.prod_report) : IsFinite(out.prod_report[i].Stock)
        /\ \A k \in 1..Len(Comparisons) : FiniteComparison(Comparisons[k].rows)
        /\ FiniteWeekly(out.weekly_stats)

Rendered == out.page \in {"info", "blank", "error", "dashboard"}

\* C10: a run loads files and renders output only while authenticated;
\* authenticated turns true only in a step that finds the entered password
\* equal to PASSWORD and leaves it as entered; a step that turns it false
\* leaves the login page and nothing else.
C10_LoginGate ==
    /\ [](Rendered => authenticated)
    /\ [][(~authenticated /\ authenticated') =>
             (password = PASSWORD /\ password' = password)]_vars
    /\ [][(~authenticated /\ password # PASSWORD) => ~authenticated']_vars
    /\ [][(authenticated /\ ~authenticated') => out'.page = "login"]_vars

\* logged out again with both files still uploaded: only the login page
C10_Witness ==
    /\ ~authenticated
    /\ password = PASSWORD
    /\ current_file # None
    /\ inv_file # None
    /\ out.page = "login"

====
